---- MODULE Spec2Model ----
(***************************************************************************)
(* Opey chat client: the conversation state (ChatState), the controller    *)
(* that reduces stream events into it (ChatController) and the outcomes of *)
(* the transport calls it makes (RestChatService).                         *)
(*                                                                         *)
(* A message is a record with one field per property of BaseMessage /      *)
(* ToolMessage.  A string property that is absent is "undefined"; an       *)
(* absent boolean flag is FALSE (the code only ever tests the flags for    *)
(* truthiness); an absent instanceNumber is 0.  The approval metadata of   *)
(* the backend (approvalMessage, riskLevel, affectedResources, ...) is     *)
(* written and never read by the code: it is carried as approvalMessage.   *)
(***************************************************************************)
EXTENDS Naturals, Sequences, FiniteSets, TLC

(* ------------------------------ bounds -------------------------------- *)

\* longest transcript explored
MaxMsgs == 3
\* longest message text explored, in characters
MaxTextLen == 2
\* uuidv4() values drawn over a run
MaxUuid == 4
\* tool_start events per tool name over a run
MaxInstances == 2
\* transport calls started over a run
MaxCalls == 2
\* reader.read() results of processStream over a run
MaxReads == 2
\* longest chunk a read returns, in pieces of text
MaxChunkLen == 3
\* init() and destroy() calls started over a run
MaxSessionCalls == 3

(* ------------------------------ inputs -------------------------------- *)

\* ids the backend gives to user and assistant messages
BackendIds == {"m1", "m2"}
\* ids the backend gives to tool calls
ToolCallIds == {"t1", "t2"}
ToolNames == {"lookup", "transfer"}
\* payloads of assistant_token
Tokens == {"a", "b"}

Undefined == "undefined"

\* the n-th value uuidv4() returns
Uuid(n) == "u" \o ToString(n)

VARIABLES
    messages,            \* ChatState.messages
    toolInstanceCounts,  \* ChatController.toolInstanceCounts
    uuidCount,           \* uuidv4() values drawn so far
    calls,               \* transport calls in flight
    callCount,           \* transport calls started so far
    abortController,     \* RestChatService.abortController: a call number, 0 if unset
    lastOp,              \* history: the operation that took the last step
    lastCall,            \* history: the call that settled in the last step, if one did
    tokenLog,            \* history: tokens delivered to each assistant message since its assistant_start
    toolStarts,          \* history: tool_start events reduced, per tool name
    readerState,         \* processStream: "idle", "reading", "ended" or "failed"
    buffer,              \* processStream: buffer, the text of the incomplete last line
    delivered,           \* history: events handed to streamEventCallback by this stream
    errorReports,        \* history: errorCallback invocations by this stream
    readCount,           \* reader.read() results so far
    linesRead,           \* history: the complete lines each read produced
    doneAt,              \* history: what had been delivered when [DONE] was first decoded
    snapshot,            \* SessionState.snapshot
    sessionCalls,        \* init() / destroy() calls awaiting the session service
    sessionCallCount,    \* init() / destroy() calls started so far
    sessionOp            \* history: the last step of init() or destroy()

chatVars == <<messages, toolInstanceCounts, uuidCount, calls, callCount,
              abortController, lastOp, lastCall, tokenLog, toolStarts>>

streamVars == <<readerState, buffer, delivered, errorReports, readCount,
                linesRead, doneAt>>

sessionVars == <<snapshot, sessionCalls, sessionCallCount, sessionOp>>

vars == <<chatVars, streamVars, sessionVars>>

(* ------------------------------ messages ------------------------------ *)

BaseMessage(id, role) ==
    [ id |-> id, correlationId |-> Undefined, role |-> role, message |-> "",
      isStreaming |-> FALSE, isLoading |-> FALSE, isPending |-> FALSE,
      error |-> Undefined, cancelled |-> FALSE,
      toolCallId |-> Undefined, toolName |-> Undefined,
      status |-> Undefined, toolOutput |-> Undefined, instanceNumber |-> 0,
      waitingForApproval |-> FALSE, approvalStatus |-> Undefined,
      approvalLevel |-> Undefined, approvalMessage |-> Undefined,
      defaultApprovalLevel |-> Undefined ]

\* Object.assign(message, updates)
Assign(message, updates) ==
    [f \in DOMAIN message |->
        IF f \in DOMAIN updates THEN updates[f] ELSE message[f]]

\* Array.prototype.findIndex, 1-based; 0 when nothing matches
FindIndex(msgs, Test(_)) ==
    IF \E i \in 1..Len(msgs) : Test(msgs[i])
    THEN CHOOSE i \in 1..Len(msgs) :
            Test(msgs[i]) /\ \A j \in 1..(i - 1) : ~Test(msgs[j])
    ELSE 0

HasId(msgs, id) == \E i \in 1..Len(msgs) : msgs[i].id = id

\* index of the message getMessage / find(msg => msg.id === id) returns
IndexOfId(msgs, id) ==
    LET Test(m) == m.id = id IN FindIndex(msgs, Test)

\* index of the message getToolMessageByCallId returns
IndexOfToolCall(msgs, toolCallId) ==
    LET Test(m) == m.role = "tool" /\ m.toolCallId = toolCallId
    IN  FindIndex(msgs, Test)

(* ------------------------------ ChatState ----------------------------- *)

SyncKeepsPending(msgs, backendId, correlationId) ==
    IF HasId(msgs, backendId)
    THEN msgs
    ELSE LET Test(m) == m.correlationId = correlationId /\ m.isPending
             index == FindIndex(msgs, Test)
         IN  IF index # 0
             THEN [msgs EXCEPT ![index].id = backendId]
             ELSE msgs

SyncRenamesAnyway(msgs, backendId, correlationId) ==
    LET Test(m) == m.correlationId = correlationId
        index == FindIndex(msgs, Test)
    IN  IF index # 0
        THEN [msgs EXCEPT ![index].id = backendId, ![index].isPending = FALSE]
        ELSE Append(msgs, [BaseMessage(backendId, "user") EXCEPT
                               !.correlationId = correlationId])

syncUserMessage(msgs, backendId, correlationId) ==
    IF HasId(msgs, backendId)
    THEN msgs
    ELSE LET Test(m) == m.correlationId = correlationId /\ m.isPending
             index == FindIndex(msgs, Test)
         IN  IF index # 0
             THEN [msgs EXCEPT ![index].id = backendId,
                               ![index].isPending = FALSE]
             ELSE msgs

AddWithoutDuplicateCheck(msgs, message) == Append(msgs, message)

addMessage(msgs, message) ==
    IF HasId(msgs, message.id) THEN msgs ELSE Append(msgs, message)

addToolMessage(msgs, toolMessage) ==
    IF HasId(msgs, toolMessage.id) THEN msgs ELSE Append(msgs, toolMessage)

addApprovalRequest(msgs, toolCallId, toolName, approvalMessage, defaultLevel) ==
    LET index == IndexOfToolCall(msgs, toolCallId)
    IN  IF index # 0
        THEN [msgs EXCEPT ![index] = Assign(@,
                 [ waitingForApproval |-> TRUE, approvalStatus |-> Undefined,
                   approvalMessage |-> approvalMessage,
                   defaultApprovalLevel |-> defaultLevel ])]
        ELSE addToolMessage(msgs, Assign(BaseMessage(toolCallId, "tool"),
                 [ toolCallId |-> toolCallId, toolName |-> toolName,
                   isStreaming |-> FALSE, waitingForApproval |-> TRUE,
                   approvalMessage |-> approvalMessage,
                   defaultApprovalLevel |-> defaultLevel ]))

\* toolCalls.forEach(toolCall => this.addApprovalRequest(...))
RECURSIVE addBatchApprovalRequest(_, _)
addBatchApprovalRequest(msgs, toolCalls) ==
    IF toolCalls = <<>>
    THEN msgs
    ELSE addBatchApprovalRequest(
             addApprovalRequest(msgs, Head(toolCalls).toolCallId,
                                Head(toolCalls).toolName,
                                Head(toolCalls).message,
                                Head(toolCalls).defaultApprovalLevel),
             Tail(toolCalls))

updateApprovalRequest(msgs, toolCallId, approved) ==
    LET index == IndexOfToolCall(msgs, toolCallId)
    IN  IF index # 0
        THEN [msgs EXCEPT ![index].approvalStatus =
                              IF approved THEN "approved" ELSE "denied"]
        ELSE msgs

RemoveApprovalResetsStatus(msgs, toolCallId) ==
    LET index == IndexOfToolCall(msgs, toolCallId)
    IN  IF index # 0
        THEN [msgs EXCEPT ![index].waitingForApproval = FALSE,
                          ![index].approvalStatus = Undefined,
                          ![index].isStreaming = TRUE]
        ELSE msgs

removeApprovalRequest(msgs, toolCallId) ==
    LET index == IndexOfToolCall(msgs, toolCallId)
    IN  IF index # 0
        THEN [msgs EXCEPT ![index].waitingForApproval = FALSE,
                          ![index].isStreaming =
                              IF msgs[index].approvalStatus = "approved"
                              THEN TRUE ELSE @]
        ELSE msgs

RemoveLoadingAndPending(msgs) ==
    LET Keep(m) == ~m.isLoading /\ ~m.isPending IN SelectSeq(msgs, Keep)

removeLoadingMessages(msgs) ==
    LET Keep(m) == ~m.isLoading IN SelectSeq(msgs, Keep)

AppendReplacesText(msgs, messageId, text) ==
    LET index == IndexOfId(msgs, messageId)
    IN  IF index # 0 THEN [msgs EXCEPT ![index].message = text] ELSE msgs

appendToMessage(msgs, messageId, text) ==
    LET index == IndexOfId(msgs, messageId)
    IN  IF index # 0
        THEN [msgs EXCEPT ![index].message = @ \o text]
        ELSE msgs

markMessageComplete(msgs, messageId) ==
    LET index == IndexOfId(msgs, messageId)
    IN  IF index = 0 THEN msgs
        ELSE IF ~msgs[index].isStreaming THEN msgs
        ELSE [msgs EXCEPT ![index].isStreaming = FALSE]

updateMessage(msgs, messageId, updates) ==
    LET index == IndexOfId(msgs, messageId)
    IN  IF index # 0
        THEN [msgs EXCEPT ![index] = Assign(@, updates)]
        ELSE msgs

updateToolMessage(msgs, toolCallId, updates) ==
    LET index == IndexOfToolCall(msgs, toolCallId)
    IN  IF index # 0
        THEN [msgs EXCEPT ![index] = Assign(@, updates)]
        ELSE msgs

StopWithoutCancelledMark(msgs) ==
    [i \in 1..Len(msgs) |-> [msgs[i] EXCEPT !.isStreaming = FALSE]]

stopAllStreaming(msgs) ==
    [i \in 1..Len(msgs) |->
        IF msgs[i].isStreaming
        THEN [msgs[i] EXCEPT !.isStreaming = FALSE, !.cancelled = TRUE]
        ELSE msgs[i]]

RemoveFromMessageOn(msgs, messageId) ==
    LET index == IndexOfId(msgs, messageId)
    IN  IF index = 0 THEN msgs ELSE SubSeq(msgs, 1, index - 1)

removeMessagesAfter(msgs, messageId) ==
    LET index == IndexOfId(msgs, messageId)
    IN  IF index = 0 THEN msgs ELSE SubSeq(msgs, 1, index)

\* clear() and setThreadId() both leave the transcript empty
clear == <<>>

(* --------------------------- ChatController --------------------------- *)

CountFromZero(counts, toolName) == counts[toolName]

\* the number assignToolInstance returns; the counter is left at this value
assignToolInstance(counts, toolName) == counts[toolName] + 1

UserMessage(correlationId, text) ==
    Assign(BaseMessage(correlationId, "user"),
           [ correlationId |-> correlationId, message |-> text,
             isPending |-> TRUE ])

LoadingMessage(id) ==
    Assign(BaseMessage(id, "assistant"), [ isLoading |-> TRUE ])

AssistantMessage(id) ==
    Assign(BaseMessage(id, "assistant"), [ isStreaming |-> TRUE ])

ErrorMessage(id, error) ==
    Assign(BaseMessage(id, "error"), [ error |-> error ])

StartedToolMessage(toolCallId, toolName, instanceNumber) ==
    Assign(BaseMessage(toolCallId, "tool"),
           [ toolCallId |-> toolCallId, toolName |-> toolName,
             isStreaming |-> TRUE, instanceNumber |-> instanceNumber ])

\* case 'assistant_start'
OnAssistantStart(msgs, messageId) ==
    addMessage(removeLoadingMessages(msgs), AssistantMessage(messageId))

\* case 'tool_start'
OnToolStart(msgs, counts, toolCallId, toolName) ==
    addToolMessage(removeApprovalRequest(msgs, toolCallId),
                   StartedToolMessage(toolCallId, toolName,
                                      assignToolInstance(counts, toolName)))

CompleteWithoutMark(msgs, toolCallId, toolOutput, status) ==
    updateToolMessage(msgs, toolCallId,
                      [ toolOutput |-> toolOutput, status |-> status ])

\* case 'tool_complete'; toolOutput is "out" or absent
OnToolComplete(msgs, toolCallId, toolOutput, status) ==
    LET updates == IF status = "error" /\ toolOutput # Undefined
                   THEN [ toolOutput |-> toolOutput, status |-> status,
                          error |-> "Tool execution failed" ]
                   ELSE [ toolOutput |-> toolOutput, status |-> status ]
    IN  markMessageComplete(updateToolMessage(msgs, toolCallId, updates),
                            toolCallId)

ErrorForAnyRole(msgs, messageId) ==
    updateMessage(msgs, messageId, [ error |-> "stream error" ])

\* case 'error' with a messageId
OnErrorFor(msgs, messageId) ==
    LET index == IndexOfId(msgs, messageId)
    IN  IF index # 0 /\ msgs[index].role # "tool"
        THEN updateMessage(msgs, messageId, [ error |-> "stream error" ])
        ELSE msgs

\* service.onError(err => ...); suppressed: err.message includes
\* 'BodyStreamBuffer was aborted'
OnTransportError(msgs, uuid, suppressed) ==
    IF suppressed
    THEN removeLoadingMessages(msgs)
    ELSE addMessage(removeLoadingMessages(msgs),
                    ErrorMessage(uuid, "transport error"))

\* the optimistic update of approveToolCall
ApproveOptimistic(msgs, toolCallId, approvalLevel) ==
    LET index == IndexOfToolCall(msgs, toolCallId)
        levelToUse ==
            IF approvalLevel # Undefined THEN approvalLevel
            ELSE IF index # 0 /\ msgs[index].defaultApprovalLevel # Undefined
                 THEN msgs[index].defaultApprovalLevel
                 ELSE "user"
    IN  updateToolMessage(updateApprovalRequest(msgs, toolCallId, TRUE),
            toolCallId,
            [ approvalStatus |-> "approved", approvalLevel |-> levelToUse,
              waitingForApproval |-> FALSE ])

\* the optimistic update of denyToolCall
DenyOptimistic(msgs, toolCallId) ==
    updateToolMessage(updateApprovalRequest(msgs, toolCallId, FALSE),
        toolCallId,
        [ approvalStatus |-> "denied", waitingForApproval |-> FALSE,
          isStreaming |-> FALSE, status |-> "error",
          toolOutput |-> "Tool execution was denied by user" ])

\* the catch block of approveToolCall, and of submitBatchApproval per decision
RevertApproval(msgs, toolCallId) ==
    updateToolMessage(msgs, toolCallId,
        [ approvalStatus |-> Undefined, approvalLevel |-> Undefined,
          waitingForApproval |-> TRUE,
          error |-> "Failed to send approval" ])

\* the catch block of denyToolCall
DenialNote(msgs, toolCallId) ==
    updateToolMessage(msgs, toolCallId, [ error |-> "Failed to send denial" ])

\* a Map of decisions is a sequence of [toolCallId, approved, level], in
\* insertion order, with no toolCallId twice
RECURSIVE BatchOptimistic(_, _)
BatchOptimistic(msgs, decisions) ==
    IF decisions = <<>>
    THEN msgs
    ELSE LET d == Head(decisions)
             marked == updateApprovalRequest(msgs, d.toolCallId, d.approved)
         IN  BatchOptimistic(
                 IF d.approved
                 THEN updateToolMessage(marked, d.toolCallId,
                          [ approvalStatus |-> "approved",
                            approvalLevel |-> d.level,
                            waitingForApproval |-> FALSE ])
                 ELSE updateToolMessage(marked, d.toolCallId,
                          [ approvalStatus |-> "denied",
                            waitingForApproval |-> FALSE,
                            isStreaming |-> FALSE, status |-> "error",
                            toolOutput |-> "Tool execution was denied by user" ]),
                 Tail(decisions))

RECURSIVE BatchRevert(_, _)
BatchRevert(msgs, decisions) ==
    IF decisions = <<>>
    THEN msgs
    ELSE BatchRevert(RevertApproval(msgs, Head(decisions).toolCallId),
                     Tail(decisions))

(* --------------------------- transport calls -------------------------- *)

\* A call of send / regenerate / sendApproval / sendBatchApproval that has
\* not settled: pending until the response arrives, then streaming.
\* aborted: the AbortController its fetch was given has been aborted.
\* before: the transcript when the controller method was entered.
Call(n, kind, toolCallId, decisions, before) ==
    [ n |-> n, kind |-> kind, phase |-> "pending", aborted |-> FALSE,
      toolCallId |-> toolCallId, decisions |-> decisions, before |-> before ]

\* decision maps submitBatchApproval is given
Decision(toolCallId, approved) ==
    [ toolCallId |-> toolCallId, approved |-> approved, level |-> "user" ]

BatchDecisions ==
    { <<Decision(t, a)>> : t \in ToolCallIds, a \in BOOLEAN }
    \cup { <<Decision(p[1], p[3]), Decision(p[2], p[4])>> :
               p \in { q \in ToolCallIds \X ToolCallIds \X BOOLEAN \X BOOLEAN :
                          q[1] # q[2] } }

\* tool call lists of a batch_approval_request event
ToolCallEntry(toolCallId, toolName) ==
    [ toolCallId |-> toolCallId, toolName |-> toolName,
      message |-> "Approval required", defaultApprovalLevel |-> "user" ]

\* a stream is being read: its events reach the stream-event callback
Delivering == \E c \in calls : c.phase = "streaming" /\ ~c.aborted

IsAssistantReply(m) == m.role = "assistant" /\ ~m.isLoading

\* the token history kept for the assistant messages of the transcript
LogFor(msgs, log) ==
    [ id \in BackendIds |->
        IF \E i \in 1..Len(msgs) : msgs[i].id = id /\ IsAssistantReply(msgs[i])
        THEN log[id] ELSE <<>> ]

Op(op, id, arg, res) == [ op |-> op, id |-> id, arg |-> arg, res |-> res ]

NoCall == Call(0, "none", Undefined, <<>>, <<>>)

\* a step of op that leaves the transcript as msgs
Commit(msgs, op) ==
    /\ Len(msgs) <= MaxMsgs
    /\ messages' = msgs
    /\ lastOp' = op
    /\ lastCall' = NoCall
    /\ tokenLog' = LogFor(msgs, tokenLog)
    /\ UNCHANGED <<streamVars, sessionVars>>

\* the step in which call c settles, leaving the transcript as msgs
Settle(msgs, c, outcome) ==
    /\ Len(msgs) <= MaxMsgs
    /\ messages' = msgs
    /\ lastOp' = Op("settled", c.toolCallId, c.kind, outcome)
    /\ lastCall' = c
    /\ tokenLog' = LogFor(msgs, tokenLog)
    /\ calls' = calls \ {c}
    /\ UNCHANGED <<streamVars, sessionVars>>

\* [DONE] has not been decoded on the stream
NotDone == [ seen |-> FALSE, delivered |-> <<>> ]

SessionOp(phase, kind, failed, promise) ==
    [ phase |-> phase, kind |-> kind, failed |-> failed, promise |-> promise ]

NoSessionOp == SessionOp("none", "none", FALSE, "none")

\* the outcomes of a call in which the service has invoked errorCallback
ErrorCallbackInvoked(outcome) ==
    outcome \in {"network", "http", "readAborted", "readFailed"}

Init ==
    /\ messages = <<>>
    /\ toolInstanceCounts = [ n \in ToolNames |-> 0 ]
    /\ uuidCount = 0
    /\ calls = {}
    /\ callCount = 0
    /\ abortController = 0
    /\ lastOp = Op("new", Undefined, Undefined, Undefined)
    /\ lastCall = NoCall
    /\ tokenLog = [ id \in BackendIds |-> <<>> ]
    /\ toolStarts = [ n \in ToolNames |-> 0 ]
    /\ readerState = "idle"
    /\ buffer = <<>>
    /\ delivered = <<>>
    /\ errorReports = 0
    /\ readCount = 0
    /\ linesRead = <<>>
    /\ doneAt = NotDone
    /\ snapshot = [ isAuthenticated |-> FALSE, status |-> "loading",
                    error |-> Undefined ]
    /\ sessionCalls = {}
    /\ sessionCallCount = 0
    /\ sessionOp = NoSessionOp

(* ------------------------- controller methods ------------------------- *)

\* ChatController.send, up to the await inside RestChatService.send
Send ==
    /\ uuidCount + 2 <= MaxUuid
    /\ callCount < MaxCalls
    /\ LET correlationId == Uuid(uuidCount + 1)
           loadingMessageId == Uuid(uuidCount + 2)
       IN  Commit(addMessage(addMessage(messages, UserMessage(correlationId, "h")),
                             LoadingMessage(loadingMessageId)),
                  Op("send", correlationId, loadingMessageId, Undefined))
    /\ uuidCount' = uuidCount + 2
    /\ callCount' = callCount + 1
    /\ abortController' = callCount + 1
    /\ calls' = calls \cup { Call(callCount + 1, "send", Undefined, <<>>, <<>>) }
    /\ UNCHANGED <<toolInstanceCounts, toolStarts>>

\* ChatController.regenerate, up to the await inside RestChatService.regenerate
Regenerate(messageId) ==
    /\ uuidCount + 1 <= MaxUuid
    /\ callCount < MaxCalls
    /\ Commit(addMessage(removeMessagesAfter(messages, messageId),
                         LoadingMessage(Uuid(uuidCount + 1))),
              Op("regenerate", messageId, Uuid(uuidCount + 1), Undefined))
    /\ uuidCount' = uuidCount + 1
    /\ callCount' = callCount + 1
    /\ abortController' = callCount + 1
    /\ calls' = calls \cup { Call(callCount + 1, "regenerate", Undefined, <<>>, <<>>) }
    /\ UNCHANGED <<toolInstanceCounts, toolStarts>>

\* ChatController.approveToolCall, up to the await of sendApproval
ApproveToolCall(toolCallId, approvalLevel) ==
    /\ callCount < MaxCalls
    /\ Commit(ApproveOptimistic(messages, toolCallId, approvalLevel),
              Op("approveToolCall", toolCallId, approvalLevel, Undefined))
    /\ callCount' = callCount + 1
    /\ calls' = calls \cup { Call(callCount + 1, "approve", toolCallId, <<>>, <<>>) }
    /\ UNCHANGED <<toolInstanceCounts, uuidCount, abortController, toolStarts>>

\* ChatController.denyToolCall, up to the await of sendApproval
DenyToolCall(toolCallId) ==
    /\ callCount < MaxCalls
    /\ Commit(DenyOptimistic(messages, toolCallId),
              Op("denyToolCall", toolCallId, Undefined, Undefined))
    /\ callCount' = callCount + 1
    /\ calls' = calls \cup { Call(callCount + 1, "deny", toolCallId, <<>>, <<>>) }
    /\ UNCHANGED <<toolInstanceCounts, uuidCount, abortController, toolStarts>>

\* ChatController.submitBatchApproval, up to the await of sendBatchApproval
SubmitBatchApproval(decisions) ==
    /\ callCount < MaxCalls
    /\ Commit(BatchOptimistic(messages, decisions),
              Op("submitBatchApproval", Undefined, Undefined, Undefined))
    /\ callCount' = callCount + 1
    /\ calls' = calls \cup { Call(callCount + 1, "batch", Undefined, decisions, messages) }
    /\ UNCHANGED <<toolInstanceCounts, uuidCount, abortController, toolStarts>>

\* ChatController.stop: stopAllStreaming(), then RestChatService.cancel aborts
\* the controller it holds and forgets it
Stop ==
    /\ Commit(stopAllStreaming(messages),
              Op("stop", Undefined, Undefined, Undefined))
    /\ calls' = { IF c.n = abortController THEN [c EXCEPT !.aborted = TRUE] ELSE c :
                  c \in calls }
    /\ abortController' = 0
    /\ UNCHANGED <<toolInstanceCounts, uuidCount, callCount, toolStarts>>

\* ChatState.setThreadId / ChatState.clear on the controller's public state
NewThread(op) ==
    /\ Commit(clear, Op(op, Undefined, Undefined, Undefined))
    /\ UNCHANGED <<toolInstanceCounts, uuidCount, calls, callCount,
                   abortController, toolStarts>>

(* -------------------------- RestChatService --------------------------- *)

\* what the controller method that made call c does when the call rejects
OnRejected(msgs, c) ==
    CASE c.kind = "regenerate" -> removeLoadingMessages(msgs)
      [] c.kind = "approve"    -> RevertApproval(msgs, c.toolCallId)
      [] c.kind = "deny"       -> DenialNote(msgs, c.toolCallId)
      [] c.kind = "batch"      -> BatchRevert(msgs, c.decisions)
      [] OTHER                 -> msgs

\* whether the promise of the controller method that made a call of this
\* kind rejects when the call has settled with outcome: send awaits nothing
\* else, approveToolCall, submitBatchApproval and regenerate rethrow in their
\* catch blocks, denyToolCall does not
ControllerRejects(kind, outcome) ==
    outcome = "rejected" /\ kind \in {"send", "approve", "batch", "regenerate"}

\* buildInit throws (auth.getHeaders() rejects): the service method rejects
\* before handleStreamingResponse is entered
BuildInitRejects(c) ==
    /\ c.phase = "pending"
    /\ Settle(OnRejected(messages, c), c, "rejected")
    /\ UNCHANGED <<toolInstanceCounts, uuidCount, callCount, abortController,
                   toolStarts>>

\* handleStreamingResponse: fetch rejects with a network error, the response
\* is not ok, or it has no body.  The error goes to the error callback and
\* the service method resolves.
TransportError(c, cause) ==
    /\ c.phase = "pending"
    /\ ~c.aborted
    /\ uuidCount + 1 <= MaxUuid
    /\ Settle(OnTransportError(messages, Uuid(uuidCount + 1), FALSE), c, cause)
    /\ uuidCount' = uuidCount + 1
    /\ UNCHANGED <<toolInstanceCounts, callCount, abortController, toolStarts>>

\* handleStreamingResponse: fetch rejects with an AbortError
FetchAborted(c) ==
    /\ c.phase = "pending"
    /\ c.aborted
    /\ Settle(messages, c, "aborted")
    /\ UNCHANGED <<toolInstanceCounts, uuidCount, callCount, abortController,
                   toolStarts>>

\* handleStreamingResponse: the response is ok, processStream starts reading
ResponseOk(c) ==
    /\ c.phase = "pending"
    /\ ~c.aborted
    /\ calls' = (calls \ {c}) \cup { [c EXCEPT !.phase = "streaming"] }
    /\ Commit(messages, Op("response", c.toolCallId, c.kind, Undefined))
    /\ UNCHANGED <<toolInstanceCounts, uuidCount, callCount, abortController,
                   toolStarts>>

\* processStream: reader.read() rejects, because the fetch was aborted or the
\* connection broke.  The catch block hands the error to the error callback;
\* suppressed: its message includes 'BodyStreamBuffer was aborted', which
\* depends on the browser.
ReadFails(c, suppressed) ==
    /\ c.phase = "streaming"
    /\ suppressed => c.aborted
    /\ suppressed \/ uuidCount + 1 <= MaxUuid
    /\ Settle(OnTransportError(messages, Uuid(uuidCount + 1), suppressed), c,
              IF c.aborted THEN "readAborted" ELSE "readFailed")
    /\ uuidCount' = IF suppressed THEN uuidCount ELSE uuidCount + 1
    /\ UNCHANGED <<toolInstanceCounts, callCount, abortController, toolStarts>>

\* processStream: reader.read() reports done
StreamEnds(c) ==
    /\ c.phase = "streaming"
    /\ ~c.aborted
    /\ Settle(messages, c, "done")
    /\ UNCHANGED <<toolInstanceCounts, uuidCount, callCount, abortController,
                   toolStarts>>

(* ----------------------- stream event handlers ------------------------ *)

Unchanged == <<toolInstanceCounts, uuidCount, calls, callCount,
               abortController, toolStarts>>

\* what syncUserMessage finds for its arguments
SyncCase(msgs, backendId, correlationId) ==
    IF HasId(msgs, backendId) THEN "duplicate"
    ELSE IF \E i \in 1..Len(msgs) :
               msgs[i].correlationId = correlationId /\ msgs[i].isPending
         THEN "synced"
         ELSE "nomatch"

\* case 'user_message_confirmed'
UserMessageConfirmed(messageId, correlationId) ==
    /\ Delivering
    /\ Commit(syncUserMessage(messages, messageId, correlationId),
              Op("user_message_confirmed", messageId, correlationId,
                 SyncCase(messages, messageId, correlationId)))
    /\ UNCHANGED Unchanged

AssistantStart(messageId) ==
    /\ Delivering
    /\ Commit(OnAssistantStart(messages, messageId),
              Op("assistant_start", messageId, Undefined,
                 IF HasId(messages, messageId) THEN "existing" ELSE "created"))
    /\ UNCHANGED Unchanged

\* case 'assistant_token'
AssistantToken(messageId, token) ==
    /\ Delivering
    /\ \A i \in 1..Len(messages) :
          messages[i].id = messageId => Len(messages[i].message) < MaxTextLen
    /\ messages' = appendToMessage(messages, messageId, token)
    /\ lastOp' = Op("assistant_token", messageId, token, Undefined)
    /\ lastCall' = NoCall
    /\ tokenLog' =
          IF \E i \in 1..Len(messages) :
                messages[i].id = messageId /\ IsAssistantReply(messages[i])
          THEN [tokenLog EXCEPT ![messageId] = Append(@, token)]
          ELSE tokenLog
    /\ UNCHANGED Unchanged
    /\ UNCHANGED <<streamVars, sessionVars>>

\* case 'assistant_complete'
AssistantComplete(messageId) ==
    /\ Delivering
    /\ Commit(markMessageComplete(messages, messageId),
              Op("assistant_complete", messageId, Undefined, Undefined))
    /\ UNCHANGED Unchanged

ToolStart(toolCallId, toolName) ==
    /\ Delivering
    /\ toolInstanceCounts[toolName] < MaxInstances
    /\ Commit(OnToolStart(messages, toolInstanceCounts, toolCallId, toolName),
              Op("tool_start", toolCallId, toolName,
                 IF HasId(messages, toolCallId) THEN "existing" ELSE "created"))
    /\ toolInstanceCounts' =
          [toolInstanceCounts EXCEPT
              ![toolName] = assignToolInstance(toolInstanceCounts, toolName)]
    /\ toolStarts' = [toolStarts EXCEPT ![toolName] = @ + 1]
    /\ UNCHANGED <<uuidCount, calls, callCount, abortController>>

ToolComplete(toolCallId, toolOutput, status) ==
    /\ Delivering
    /\ Commit(OnToolComplete(messages, toolCallId, toolOutput, status),
              Op("tool_complete", toolCallId, status, toolOutput))
    /\ UNCHANGED Unchanged

\* case 'error' with event.messageId set
ErrorEventFor(messageId) ==
    /\ Delivering
    /\ Commit(OnErrorFor(messages, messageId),
              Op("error", messageId, Undefined, Undefined))
    /\ UNCHANGED Unchanged

\* case 'error' without a messageId
ErrorEvent ==
    /\ Delivering
    /\ uuidCount + 1 <= MaxUuid
    /\ Commit(addMessage(messages, ErrorMessage(Uuid(uuidCount + 1), "stream error")),
              Op("error", Undefined, Undefined, Uuid(uuidCount + 1)))
    /\ uuidCount' = uuidCount + 1
    /\ UNCHANGED <<toolInstanceCounts, calls, callCount, abortController,
                   toolStarts>>

\* case 'approval_request'
ApprovalRequest(toolCallId, toolName) ==
    /\ Delivering
    /\ Commit(addApprovalRequest(messages, toolCallId, toolName,
                                 "Approval required", "user"),
              Op("approval_request", toolCallId, toolName, Undefined))
    /\ UNCHANGED Unchanged

\* case 'batch_approval_request', with both tool calls in the list
BatchApprovalRequest(toolName1, toolName2) ==
    /\ Delivering
    /\ Commit(addBatchApprovalRequest(messages,
                  << ToolCallEntry("t1", toolName1),
                     ToolCallEntry("t2", toolName2) >>),
              Op("batch_approval_request", Undefined, Undefined, Undefined))
    /\ UNCHANGED Unchanged

(* ------------------- ChatState called directly ------------------------ *)

\* ids the callers of the ChatState API use
StateIds == {"m1", "m2", "t1"}
CorrelationIds == {"c1", "c2"}

\* a step of a ChatState method that leaves the transcript as msgs
StateStep(msgs, op) ==
    /\ Len(msgs) <= MaxMsgs
    /\ messages' = msgs
    /\ lastOp' = op
    /\ UNCHANGED <<toolInstanceCounts, uuidCount, calls, callCount,
                   abortController, lastCall, tokenLog, toolStarts>>
    /\ UNCHANGED <<streamVars, sessionVars>>

\* the messages the callers of addMessage build
MessageInputs ==
    { UserMessage(c, "h") : c \in CorrelationIds }
    \cup { AssistantMessage(id) : id \in {"m1", "m2"} }
    \cup { LoadingMessage("m2") }

\* the messages the callers of addToolMessage build
ToolMessageInputs ==
    { StartedToolMessage(id, "lookup", 1) : id \in {"t1", "m1"} }

StateAddMessage(message) ==
    StateStep(addMessage(messages, message),
              Op("addMessage", message.id, message.role,
                 IF HasId(messages, message.id) THEN "existing" ELSE "created"))

StateAddToolMessage(toolMessage) ==
    StateStep(addToolMessage(messages, toolMessage),
              Op("addToolMessage", toolMessage.id, toolMessage.role,
                 IF HasId(messages, toolMessage.id) THEN "existing" ELSE "created"))

StateSyncUserMessage(backendId, correlationId) ==
    StateStep(syncUserMessage(messages, backendId, correlationId),
              Op("syncUserMessage", backendId, correlationId,
                 IF lastOp = Op("syncUserMessage", backendId, correlationId, "synced")
                 THEN "repeated"
                 ELSE SyncCase(messages, backendId, correlationId)))

StateMarkMessageComplete(messageId) ==
    StateStep(markMessageComplete(messages, messageId),
              Op("markMessageComplete", Undefined, Undefined, Undefined))

StateStopAllStreaming ==
    StateStep(stopAllStreaming(messages),
              Op("stopAllStreaming", Undefined, Undefined, Undefined))

StateRemoveMessagesAfter(messageId) ==
    StateStep(removeMessagesAfter(messages, messageId),
              Op("removeMessagesAfter", messageId, Undefined,
                 IF ~HasId(messages, messageId) THEN "absent"
                 ELSE IF messages[Len(messages)].id = messageId THEN "last"
                 ELSE "truncated"))

StateRemoveLoadingMessages ==
    StateStep(removeLoadingMessages(messages),
              Op("removeLoadingMessages", Undefined, Undefined, Undefined))

StateClear(op) ==
    StateStep(clear, Op(op, Undefined, Undefined, Undefined))

StateNext ==
    \/ \E message \in MessageInputs : StateAddMessage(message)
    \/ \E toolMessage \in ToolMessageInputs : StateAddToolMessage(toolMessage)
    \/ \E id \in StateIds, c \in CorrelationIds : StateSyncUserMessage(id, c)
    \/ \E id \in StateIds : StateMarkMessageComplete(id)
    \/ StateStopAllStreaming
    \/ \E id \in StateIds : StateRemoveMessagesAfter(id)
    \/ StateRemoveLoadingMessages
    \/ \E op \in {"setThreadId", "clear"} : StateClear(op)

\* the ChatState API under arbitrary callers
StateSpec == Init /\ [][StateNext]_vars

(* ------------------- RestChatService.processStream -------------------- *)

\* The text of a stream is a sequence of pieces, each standing for a run of
\* characters: 'data: ' followed by the JSON text of an event of a known
\* type, 'data: ' followed by the end-of-stream payload, 'data: ' followed by
\* text that is not valid JSON, and the line feed.  A line is the sequence
\* of pieces between two line feeds.
DoneLine == "data: [DONE]"
NewLine == "\n"
EventLines == {"data: e1", "data: e2"}
Pieces == {DoneLine, NewLine, "data: {bad"} \cup EventLines

\* the values reader.read() returns
Chunks == UNION { [1..n -> Pieces] : n \in 1..MaxChunkLen }

\* buffer.split('\n'): the complete lines, and lines.pop(), the rest
RECURSIVE Split(_, _, _)
Split(text, current, lines) ==
    IF text = <<>>
    THEN [ lines |-> lines, rest |-> current ]
    ELSE IF Head(text) = NewLine
         THEN Split(Tail(text), <<>>, Append(lines, current))
         ELSE Split(Tail(text), Append(current, Head(text)), lines)

SplitLines(text) == Split(text, <<>>, <<>>)

\* line.startsWith('data: '): every piece but the line feed begins with
\* 'data: ', so all lines but the empty one do
IsDataLine(line) == line # <<>>

\* line.slice(6).trim() === '[DONE]'
IsDone(line) == line = <<DoneLine>>

\* JSON.parse(line.slice(6)) returns and handleStreamEvent finds a known
\* type: the line is one event piece (two pieces run together, or anything
\* with the bad piece, are not valid JSON)
IsEvent(line) == Len(line) = 1 /\ line[1] \in EventLines

RECURSIVE StopAtBadLine(_, _, _)
StopAtBadLine(lines, events, errors) ==
    IF lines = <<>>
    THEN [ delivered |-> events, errors |-> errors, done |-> FALSE ]
    ELSE LET line == Head(lines)
         IN  IF ~IsDataLine(line)
             THEN StopAtBadLine(Tail(lines), events, errors)
             ELSE IF IsDone(line)
             THEN [ delivered |-> events, errors |-> errors, done |-> TRUE ]
             ELSE IF IsEvent(line)
             THEN StopAtBadLine(Tail(lines), Append(events, line[1]), errors)
             ELSE [ delivered |-> events, errors |-> errors + 1,
                    done |-> FALSE ]

\* for (const line of lines) { ... }
RECURSIVE ProcessLines(_, _, _)
ProcessLines(lines, events, errors) ==
    IF lines = <<>>
    THEN [ delivered |-> events, errors |-> errors, done |-> FALSE ]
    ELSE LET line == Head(lines)
         IN  IF ~IsDataLine(line)
             THEN ProcessLines(Tail(lines), events, errors)
             ELSE IF IsDone(line)
             THEN [ delivered |-> events, errors |-> errors, done |-> TRUE ]
             ELSE IF IsEvent(line)
             THEN ProcessLines(Tail(lines), Append(events, line[1]), errors)
             ELSE ProcessLines(Tail(lines), events, errors + 1)

\* handleStreamingResponse has a reader and calls processStream
StartProcessStream ==
    /\ readerState # "reading"
    /\ readCount < MaxReads
    /\ readerState' = "reading"
    /\ buffer' = <<>>
    /\ delivered' = <<>>
    /\ errorReports' = 0
    /\ linesRead' = <<>>
    /\ doneAt' = NotDone
    /\ UNCHANGED <<readCount, chatVars, sessionVars>>

\* reader.read() returns { done: false, value: chunk }: one turn of the
\* while loop
ReadChunk(chunk) ==
    /\ readerState = "reading"
    /\ readCount < MaxReads
    /\ LET split == SplitLines(buffer \o chunk)
           result == ProcessLines(split.lines, delivered, errorReports)
       IN  /\ buffer' = split.rest
           /\ delivered' = result.delivered
           /\ errorReports' = result.errors
           /\ linesRead' = Append(linesRead, split.lines)
           /\ doneAt' = IF result.done /\ ~doneAt.seen
                        THEN [ seen |-> TRUE, delivered |-> result.delivered ]
                        ELSE doneAt
    /\ readCount' = readCount + 1
    /\ UNCHANGED <<readerState, chatVars, sessionVars>>

\* reader.read() returns { done: true }
ReadDone ==
    /\ readerState = "reading"
    /\ readerState' = "ended"
    /\ UNCHANGED <<buffer, delivered, errorReports, readCount, linesRead,
                   doneAt, chatVars, sessionVars>>

\* reader.read() rejects: the catch block reports the error
ReadRejects ==
    /\ readerState = "reading"
    /\ readerState' = "failed"
    /\ errorReports' = errorReports + 1
    /\ UNCHANGED <<buffer, delivered, readCount, linesRead, doneAt,
                   chatVars, sessionVars>>

(* ----------------- SessionController and SessionState ----------------- *)

setAuth(snap, isAuthenticated) ==
    [snap EXCEPT !.isAuthenticated = isAuthenticated]

setStatus(snap, status, error) ==
    [snap EXCEPT !.status = status, !.error = error]

SessionCall(n, kind, consentJwt) ==
    [ n |-> n, kind |-> kind, consentJwt |-> consentJwt ]

\* SessionController.init, up to the await of createSession
SessionInit(consentJwt) ==
    /\ sessionCallCount < MaxSessionCalls
    /\ snapshot' = setStatus(snapshot, "loading", Undefined)
    /\ sessionCallCount' = sessionCallCount + 1
    /\ sessionCalls' = sessionCalls \cup
                          { SessionCall(sessionCallCount + 1, "init", consentJwt) }
    /\ sessionOp' = SessionOp("start", "init", FALSE, "pending")
    /\ UNCHANGED <<chatVars, streamVars>>

\* createSession resolves
SessionInitResolves(c) ==
    /\ c.kind = "init"
    /\ snapshot' = setStatus(setAuth(snapshot, c.consentJwt # Undefined),
                             "ready", Undefined)
    /\ sessionCalls' = sessionCalls \ {c}
    /\ sessionOp' = SessionOp("end", "init", FALSE, "resolved")
    /\ UNCHANGED <<sessionCallCount, chatVars, streamVars>>

\* createSession rejects: the catch block of init
SessionInitRejects(c) ==
    /\ c.kind = "init"
    /\ snapshot' = setStatus(snapshot, "error", "Failed to create session")
    /\ sessionCalls' = sessionCalls \ {c}
    /\ sessionOp' = SessionOp("end", "init", TRUE, "resolved")
    /\ UNCHANGED <<sessionCallCount, chatVars, streamVars>>

\* SessionController.destroy, up to the await of deleteSession
SessionDestroy ==
    /\ sessionCallCount < MaxSessionCalls
    /\ snapshot' = setStatus(snapshot, "loading", Undefined)
    /\ sessionCallCount' = sessionCallCount + 1
    /\ sessionCalls' = sessionCalls \cup
                          { SessionCall(sessionCallCount + 1, "destroy", Undefined) }
    /\ sessionOp' = SessionOp("start", "destroy", FALSE, "pending")
    /\ UNCHANGED <<chatVars, streamVars>>

\* deleteSession resolves
SessionDestroyResolves(c) ==
    /\ c.kind = "destroy"
    /\ snapshot' = setStatus(setAuth(snapshot, FALSE), "ready", Undefined)
    /\ sessionCalls' = sessionCalls \ {c}
    /\ sessionOp' = SessionOp("end", "destroy", FALSE, "resolved")
    /\ UNCHANGED <<sessionCallCount, chatVars, streamVars>>

\* deleteSession rejects: destroy has no catch block, the rejection goes to
\* the caller
SessionDestroyRejects(c) ==
    /\ c.kind = "destroy"
    /\ sessionCalls' = sessionCalls \ {c}
    /\ sessionOp' = SessionOp("end", "destroy", TRUE, "rejected")
    /\ UNCHANGED <<snapshot, sessionCallCount, chatVars, streamVars>>

(* --------------------------- specifications --------------------------- *)

\* A conversation without tools: the user sends, regenerates, stops and
\* starts new threads; the backend confirms, streams assistant messages and
\* reports errors.
ChatNext ==
    \/ Send
    \/ \E id \in BackendIds : Regenerate(id)
    \/ \E op \in {"setThreadId", "clear"} : NewThread(op)
    \/ \E c \in calls : ResponseOk(c)
    \/ \E c \in calls : StreamEnds(c)
    \/ \E id \in BackendIds, n \in 1..uuidCount :
          UserMessageConfirmed(id, Uuid(n))
    \/ \E id \in BackendIds : AssistantStart(id)
    \/ \E id \in BackendIds, token \in Tokens : AssistantToken(id, token)
    \/ \E id \in BackendIds : AssistantComplete(id)

ChatSpec == Init /\ [][ChatNext]_vars

\* Tool numbering: the backend starts tools and asks for approvals on the
\* stream of a send; the user starts new threads.
InstanceNext ==
    \/ Send
    \/ \E op \in {"setThreadId", "clear"} : NewThread(op)
    \/ \E c \in calls : ResponseOk(c)
    \/ \E c \in calls : StreamEnds(c)
    \/ \E t \in ToolCallIds, name \in ToolNames : ToolStart(t, name)
    \/ \E t \in ToolCallIds, name \in ToolNames : ApprovalRequest(t, name)
    \/ \E n1 \in ToolNames, n2 \in ToolNames : BatchApprovalRequest(n1, n2)

InstanceSpec == Init /\ [][InstanceNext]_vars

\* Approvals of the calls of one tool: the user approves, denies and submits
\* batches; the calls to the backend succeed or fail; on the streams of the
\* calls that succeed the backend asks for further approvals and starts
\* tools.
ApprovalNext ==
    \/ \E t \in ToolCallIds : ApproveToolCall(t, Undefined)
    \/ \E t \in ToolCallIds : DenyToolCall(t)
    \/ \E decisions \in BatchDecisions : SubmitBatchApproval(decisions)
    \/ \E c \in calls : BuildInitRejects(c)
    \/ \E c \in calls : TransportError(c, "network")
    \/ \E c \in calls : ResponseOk(c)
    \/ \E c \in calls : StreamEnds(c)
    \/ \E t \in ToolCallIds : ToolStart(t, "lookup")
    \/ \E t \in ToolCallIds : ApprovalRequest(t, "lookup")

ApprovalSpec == Init /\ [][ApprovalNext]_vars

\* The transcript under everything that adds messages to it or takes them
\* out: the user sends, regenerates, approves and starts new threads; calls
\* fail on the network; the backend confirms, starts assistant messages and
\* tools, asks for approval and reports errors.
TranscriptNext ==
    \/ Send
    \/ Regenerate("m1")
    \/ NewThread("clear")
    \/ ApproveToolCall("t1", Undefined)
    \/ \E c \in calls : TransportError(c, "network")
    \/ \E c \in calls : ResponseOk(c)
    \/ \E c \in calls : StreamEnds(c)
    \/ \E n \in 1..uuidCount : UserMessageConfirmed("m1", Uuid(n))
    \/ \E id \in BackendIds : AssistantStart(id)
    \/ ToolStart("t1", "lookup")
    \/ ApprovalRequest("t1", "lookup")

TranscriptSpec == Init /\ [][TranscriptNext]_vars

\* Cancellation: the user sends, approves and stops; the calls are answered,
\* aborted or broken; the backend streams one assistant message.
CancelNext ==
    \/ Send
    \/ ApproveToolCall("t1", Undefined)
    \/ Stop
    \/ \E c \in calls : FetchAborted(c)
    \/ \E c \in calls, suppressed \in BOOLEAN : ReadFails(c, suppressed)
    \/ \E c \in calls : TransportError(c, "network")
    \/ \E c \in calls : ResponseOk(c)
    \/ \E c \in calls : StreamEnds(c)
    \/ AssistantStart("m1")
    \/ AssistantToken("m1", "a")
    \/ AssistantComplete("m1")

CancelSpec == Init /\ [][CancelNext]_vars

\* One response body read by processStream.
StreamNext ==
    \/ StartProcessStream
    \/ \E chunk \in Chunks : ReadChunk(chunk)
    \/ ReadDone
    \/ ReadRejects

StreamSpec == Init /\ [][StreamNext]_vars

\* The session of the chat: the page initialises and destroys it, the
\* session service answers or fails.
SessionNext ==
    \/ \E consentJwt \in {Undefined, "jwt"} : SessionInit(consentJwt)
    \/ SessionDestroy
    \/ \E c \in sessionCalls : SessionInitResolves(c)
    \/ \E c \in sessionCalls : SessionInitRejects(c)
    \/ \E c \in sessionCalls : SessionDestroyResolves(c)
    \/ \E c \in sessionCalls : SessionDestroyRejects(c)

SessionSpec == Init /\ [][SessionNext]_vars

\* One tool call: the user approves, denies and stops; on the streams of the
\* approvals the backend asks for approval, starts the tool and completes
\* it.
ToolNext ==
    \/ ApproveToolCall("t1", Undefined)
    \/ DenyToolCall("t1")
    \/ Stop
    \/ \E c \in calls : ResponseOk(c)
    \/ \E c \in calls : StreamEnds(c)
    \/ ApprovalRequest("t1", "lookup")
    \/ ToolStart("t1", "lookup")
    \/ \E out \in {Undefined, "out"}, status \in {"success", "error"} :
          ToolComplete("t1", out, status)

ToolSpec == Init /\ [][ToolNext]_vars

\* Errors reported on the stream of a send, for the assistant message, for
\* the tool message, for a message that does not exist, and for none.
ErrorNext ==
    \/ Send
    \/ \E c \in calls : ResponseOk(c)
    \/ \E c \in calls : StreamEnds(c)
    \/ AssistantStart("m1")
    \/ AssistantComplete("m1")
    \/ ApprovalRequest("t1", "lookup")
    \/ ToolStart("t1", "lookup")
    \/ \E id \in {"m1", "m2", "t1"} : ErrorEventFor(id)
    \/ ErrorEvent

ErrorSpec == Init /\ [][ErrorNext]_vars

\* the whole client
Next ==
    \/ StreamNext
    \/ SessionNext
    \/ ChatNext
    \/ TranscriptNext
    \/ CancelNext
    \/ Stop
    \/ \E c \in calls : FetchAborted(c)
    \/ \E c \in calls, suppressed \in BOOLEAN : ReadFails(c, suppressed)
    \/ \E c \in calls, cause \in {"network", "http"} : TransportError(c, cause)
    \/ \E id \in BackendIds : ErrorEventFor(id)
    \/ ErrorEvent
    \/ InstanceNext
    \/ ApprovalNext
    \/ ToolNext
    \/ ErrorNext
    \/ \E t \in ToolCallIds : ApproveToolCall(t, "session")
    \/ \E t \in ToolCallIds, out \in {Undefined, "out"},
          status \in {"success", "error"} : ToolComplete(t, out, status)
    \/ \E t \in ToolCallIds : ErrorEventFor(t)

Spec == Init /\ [][Next]_vars

(* ------------------------------- claims ------------------------------- *)

RECURSIVE Concat(_)
Concat(tokens) ==
    IF tokens = <<>> THEN "" ELSE Head(tokens) \o Concat(Tail(tokens))

\* C1: the text of every assistant message created by assistant_start is the
\* concatenation, in arrival order, of the tokens of the assistant_token
\* events that carried its id since it was created.
C1_TextIsConcatenationOfTokens ==
    \A i \in 1..Len(messages) :
        IsAssistantReply(messages[i]) =>
            messages[i].message = Concat(tokenLog[messages[i].id])

\* two different tokens have been appended to one assistant message
C1_Witness ==
    /\ lastOp.op = "assistant_token"
    /\ \E i \in 1..Len(messages) :
          /\ IsAssistantReply(messages[i])
          /\ messages[i].id = lastOp.id
          /\ tokenLog[lastOp.id] = <<"b", "a">>
          /\ messages[i].message = "ba"

\* C2: after send the transcript ends with a pending user message carrying a
\* fresh correlationId and a loading placeholder; user_message_confirmed with
\* that correlationId and a backend id m gives that message, at its position,
\* id m and isPending = false and changes nothing else (an id m that a message
\* of the transcript already has is the duplicate confirmation, which changes
\* nothing); after assistant_start no loading placeholder is left.
C2_SendConfirmStart ==
    [][ /\ lastOp'.op = "send" =>
            LET n == Len(messages')
            IN  /\ n = Len(messages) + 2
                /\ SubSeq(messages', 1, n - 2) = messages
                /\ messages'[n - 1].role = "user"
                /\ messages'[n - 1].isPending
                /\ messages'[n - 1].correlationId = lastOp'.id
                /\ \A i \in 1..Len(messages) :
                      /\ messages[i].id # lastOp'.id
                      /\ messages[i].correlationId # lastOp'.id
                /\ messages'[n].isLoading
        /\ lastOp'.op = "user_message_confirmed" =>
            \A i \in 1..Len(messages) :
                ( /\ messages[i].correlationId = lastOp'.arg
                  /\ messages[i].isPending
                  /\ \A j \in 1..(i - 1) :
                        ~(messages[j].correlationId = lastOp'.arg
                          /\ messages[j].isPending) )
                => IF \A j \in 1..Len(messages) : messages[j].id # lastOp'.id
                   THEN messages' = [messages EXCEPT ![i].id = lastOp'.id,
                                                     ![i].isPending = FALSE]
                   ELSE messages' = messages
        /\ lastOp'.op = "assistant_start" =>
            \A i \in 1..Len(messages') : ~messages'[i].isLoading
      ]_vars

\* the sent message has been confirmed and the reply has started
C2_Witness ==
    /\ lastOp.op = "assistant_start"
    /\ Len(messages) = 2
    /\ messages[1].role = "user"
    /\ messages[1].correlationId = Uuid(1)
    /\ messages[1].id \in BackendIds
    /\ ~messages[1].isPending
    /\ IsAssistantReply(messages[2])

\* C3: syncUserMessage never changes the number of messages, and a second
\* call with the arguments of a sync that has just succeeded changes nothing.
C3_SyncIdempotent ==
    [][ lastOp'.op = "syncUserMessage" =>
            /\ Len(messages') = Len(messages)
            /\ lastOp'.res = "repeated" => messages' = messages
      ]_vars

\* the second of two equal calls has run, the first having renamed a message
C3_Witness ==
    /\ lastOp.op = "syncUserMessage"
    /\ lastOp.res = "repeated"
    /\ \E i \in 1..Len(messages) :
          /\ messages[i].id = lastOp.id
          /\ messages[i].correlationId = lastOp.arg
          /\ ~messages[i].isPending

\* C4: addMessage and addToolMessage with an id a message of the transcript
\* already has leave the transcript as it was.
C4_DuplicateAddIsNoOp ==
    [][ ( /\ lastOp'.op \in {"addMessage", "addToolMessage"}
          /\ \E i \in 1..Len(messages) : messages[i].id = lastOp'.id )
        => messages' = messages
      ]_vars

\* addMessage has been called with the id of a message of the transcript
C4_Witness ==
    /\ lastOp.op = "addMessage"
    /\ lastOp.res = "existing"
    /\ Len(messages) = 2
    /\ \E i \in 1..Len(messages) : messages[i].id = lastOp.id

\* addToolMessage has been called with the id of a message of the transcript
C4_WitnessTool ==
    /\ lastOp.op = "addToolMessage"
    /\ lastOp.res = "existing"
    /\ \E i \in 1..Len(messages) : messages[i].id = lastOp.id

\* C5: removeMessagesAfter(id) leaves the prefix of the transcript that ends
\* at the message with that id, and leaves the transcript as it was when no
\* message has that id.
C5_RemoveMessagesAfterIsPrefix ==
    [][ lastOp'.op = "removeMessagesAfter" =>
            IF \E k \in 1..Len(messages) : messages[k].id = lastOp'.id
            THEN \E k \in 1..Len(messages) :
                    /\ messages[k].id = lastOp'.id
                    /\ \A j \in 1..(k - 1) : messages[j].id # lastOp'.id
                    /\ Len(messages') = k
                    /\ \A j \in 1..k : messages'[j] = messages[j]
                    /\ messages'[Len(messages')].id = lastOp'.id
            ELSE messages' = messages
      ]_vars

\* a transcript of three messages has been cut after its second message
C5_Witness ==
    /\ lastOp.op = "removeMessagesAfter"
    /\ lastOp.res = "truncated"
    /\ Len(messages) = 2
    /\ messages[2].id = lastOp.id

\* C6: after stopAllStreaming no message is streaming, the messages that were
\* streaming are cancelled and otherwise as before, and the others unchanged.
C6_StopAllStreaming ==
    [][ lastOp'.op = "stopAllStreaming" =>
            /\ Len(messages') = Len(messages)
            /\ \A i \in 1..Len(messages) :
                  /\ ~messages'[i].isStreaming
                  /\ messages[i].isStreaming =>
                        /\ messages'[i].cancelled
                        /\ messages'[i] = [messages[i] EXCEPT
                                              !.isStreaming = FALSE,
                                              !.cancelled = TRUE]
                  /\ ~messages[i].isStreaming => messages'[i] = messages[i]
      ]_vars

\* stopAllStreaming has cancelled one message and left another alone
C6_Witness ==
    /\ lastOp.op = "stopAllStreaming"
    /\ \E i, j \in 1..Len(messages) :
          /\ messages[i].cancelled
          /\ ~messages[j].cancelled
          /\ messages[j].role = "assistant"
          /\ ~messages[j].isLoading

\* C7: tool instance numbers are per tool name, start at 1 and grow by one with
\* every tool_start of that name for as long as the controller lives: the
\* counter of a name equals the number of its tool_start events whatever
\* setThreadId and clear did in between, the tool message the k-th
\* tool_start of a name creates has instanceNumber k, and the numbered tool
\* messages of one name stand in the transcript in increasing number.
C7_InstanceNumbering ==
    /\ \A name \in ToolNames : toolInstanceCounts[name] = toolStarts[name]
    /\ (lastOp.op = "tool_start" /\ lastOp.res = "created") =>
          \E i \in 1..Len(messages) :
              /\ messages[i].id = lastOp.id
              /\ messages[i].toolName = lastOp.arg
              /\ messages[i].instanceNumber = toolStarts[lastOp.arg]
    /\ \A i \in 1..Len(messages) :
          (messages[i].role = "tool" /\ messages[i].instanceNumber # 0) =>
              /\ messages[i].instanceNumber >= 1
              /\ messages[i].instanceNumber <= toolStarts[messages[i].toolName]
    /\ \A i, j \in 1..Len(messages) :
          ( /\ i < j
            /\ messages[i].role = "tool" /\ messages[j].role = "tool"
            /\ messages[i].toolName = messages[j].toolName
            /\ messages[i].instanceNumber # 0
            /\ messages[j].instanceNumber # 0 )
          => messages[i].instanceNumber < messages[j].instanceNumber

\* the second tool_start of a name got number 2 although the transcript, and
\* with it the first tool message of that name, was cleared in between
C7_Witness ==
    /\ lastOp.op = "tool_start"
    /\ lastOp.res = "created"
    /\ Len(messages) = 1
    /\ messages[1].toolName = lastOp.arg
    /\ messages[1].instanceNumber = 2

\* two tool messages of one name, with distinct ids, numbered 1 then 2
C7_WitnessOneThenTwo ==
    /\ lastOp.op = "tool_start"
    /\ lastOp.res = "created"
    /\ Len(messages) = 2
    /\ messages[1].toolName = messages[2].toolName
    /\ messages[1].id # messages[2].id
    /\ messages[1].instanceNumber = 1
    /\ messages[2].instanceNumber = 2

\* C8: tool_start for a tool call that an approval_request has put in the
\* transcript leaves its message with waitingForApproval = false and with the
\* approvalStatus it had, and turns isStreaming on exactly when that status
\* is 'approved'; otherwise isStreaming stays as it was.
C8_ToolStartAfterApprovalRequest ==
    [][ lastOp'.op = "tool_start" =>
            \A i \in 1..Len(messages) :
                ( /\ i = IndexOfToolCall(messages, lastOp'.id)
                  /\ messages[i].approvalMessage # Undefined )
                => /\ Len(messages') = Len(messages)
                   /\ messages'[i].waitingForApproval = FALSE
                   /\ messages'[i].approvalStatus = messages[i].approvalStatus
                   /\ messages[i].approvalStatus = "approved"
                         => messages'[i].isStreaming
                   /\ messages[i].approvalStatus # "approved"
                         => messages'[i].isStreaming = messages[i].isStreaming
      ]_vars

\* tool_start has reached an approved tool call and set it streaming
C8_Witness ==
    /\ lastOp.op = "tool_start"
    /\ lastOp.res = "existing"
    /\ \E i \in 1..Len(messages) :
          /\ messages[i].role = "tool"
          /\ messages[i].toolCallId = lastOp.id
          /\ messages[i].approvalMessage # Undefined
          /\ messages[i].approvalStatus = "approved"
          /\ messages[i].isStreaming
          /\ ~messages[i].waitingForApproval

\* C9: when the request of approveToolCall(t) has failed with a network
\* error and approveToolCall has finished, the tool message t is waiting for
\* approval again, has no approvalStatus and carries an error string.
C9_NetworkErrorRevertsApproval ==
    ( /\ lastOp.op = "settled"
      /\ lastOp.arg = "approve"
      /\ lastOp.res = "network" )
    => \A i \in 1..Len(messages) :
          (messages[i].role = "tool" /\ messages[i].toolCallId = lastOp.id)
          => /\ messages[i].waitingForApproval
             /\ messages[i].approvalStatus = Undefined
             /\ messages[i].error # Undefined

\* C10: when the one request of submitBatchApproval(decisions) has failed and
\* submitBatchApproval has finished, the failure has been rethrown and every
\* tool message named in decisions is waiting for approval again, has no
\* approvalStatus and no approvalLevel, has the status and the toolOutput it
\* had before the call, and carries an error string.
C10_BatchFailureRestoresAll ==
    ( /\ lastOp.op = "settled"
      /\ lastOp.arg = "batch"
      /\ lastOp.res \in {"network", "rejected"}
      /\ \A k \in 1..Len(lastCall.decisions) :
            LET b == IndexOfToolCall(lastCall.before,
                                     lastCall.decisions[k].toolCallId)
            IN  b # 0 /\ lastCall.before[b].waitingForApproval )
    => /\ lastOp.res = "rejected"
       /\ \A k \in 1..Len(lastCall.decisions) :
             LET t == lastCall.decisions[k].toolCallId
                 i == IndexOfToolCall(messages, t)
                 b == IndexOfToolCall(lastCall.before, t)
             IN  (i # 0 /\ b # 0) =>
                    /\ messages[i].waitingForApproval
                    /\ messages[i].approvalStatus = Undefined
                    /\ messages[i].approvalLevel = Undefined
                    /\ messages[i].status = lastCall.before[b].status
                    /\ messages[i].toolOutput = lastCall.before[b].toolOutput
                    /\ messages[i].error # Undefined

\* C11: after any tool_start event the transcript contains no loading
\* placeholder.
C11_ToolStartRemovesLoading ==
    lastOp.op = "tool_start" =>
        \A i \in 1..Len(messages) : ~messages[i].isLoading

\* C12: when a send or regenerate has been cancelled by stop() and the
\* cancelled call has come to its end, the transcript contains no loading
\* placeholder, whether the abort landed before the response or during the
\* reading of the body.
C12_CancelRemovesLoading ==
    ( /\ lastOp.op = "settled"
      /\ lastCall.kind \in {"send", "regenerate"}
      /\ lastCall.aborted )
    => \A i \in 1..Len(messages) : ~messages[i].isLoading

\* C13: a call aborted by cancel() ends without the service having invoked
\* the error callback, whether the abort took effect while the response was
\* awaited or while the body was read.
C13_AbortIsNoError ==
    (lastOp.op = "settled" /\ lastCall.aborted)
    => ~ErrorCallbackInvoked(lastOp.res)

\* C16: at most one send or regenerate of the controller is active at any
\* moment, that is, has a stream that can still deliver events.
C16_OnePrimaryOperation ==
    Cardinality({ c \in calls : /\ c.kind \in {"send", "regenerate"}
                                /\ c.phase = "streaming"
                                /\ ~c.aborted }) <= 1

\* C17: a message that stop() has marked cancelled is not changed by any
\* assistant_token, assistant_complete, tool_complete or error event that is
\* delivered afterwards.
C17_CancelledMessagesFrozen ==
    [][ lastOp'.op \in {"assistant_token", "assistant_complete",
                        "tool_complete", "error"}
        => \A i \in 1..Len(messages) :
              messages[i].cancelled =>
                  /\ i <= Len(messages')
                  /\ messages'[i] = messages[i]
      ]_vars

\* the operations through which messages are meant to leave the transcript
Removers == {"regenerate", "removeMessagesAfter", "clear", "setThreadId"}

NotLoading(m) == ~m.isLoading

\* b is the message a, possibly with fields updated (syncUserMessage gives a
\* user message a new id and keeps its correlationId)
SameMessage(a, b) ==
    /\ a.role = b.role
    /\ \/ a.id = b.id
       \/ a.correlationId # Undefined /\ a.correlationId = b.correlationId

\* every message of old is in new, at its place
KeptIn(old, new) ==
    /\ Len(new) >= Len(old)
    /\ \A k \in 1..Len(old) : SameMessage(old[k], new[k])

\* C18, as stated: with the exception of regeneration and of a full clear or
\* new thread, no step takes a message out of the transcript.
C18_OnlyRegenerateOrClearRemoves ==
    [][ lastOp'.op \notin Removers => KeptIn(messages, messages') ]_vars

\* C18, amended: with the exception of regeneration and of a full clear or
\* new thread, no step takes a message that is not a loading placeholder out
\* of the transcript; loading placeholders leave it in addition when
\* assistant_start is reduced and when a call ends (error callback, failed
\* regenerate), and in no other step.
C18_OnlyPlaceholdersRemovedOtherwise ==
    [][ lastOp'.op \notin Removers =>
            /\ KeptIn(SelectSeq(messages, NotLoading),
                      SelectSeq(messages', NotLoading))
            /\ lastOp'.op \notin {"assistant_start", "settled"}
                  => KeptIn(messages, messages')
      ]_vars

\* assistant_start has taken the loading placeholder out of the transcript
\* and left the user message before it in place
C18_Witness ==
    /\ lastOp.op = "assistant_start"
    /\ lastOp.res = "created"
    /\ Len(messages) = 2
    /\ messages[1].role = "user"
    /\ messages[2].id = lastOp.id
    /\ \A i \in 1..Len(messages) : ~messages[i].isLoading

\* C19: no two messages of the transcript have the same id.
C19_IdsUnique ==
    \A i, j \in 1..Len(messages) :
        i # j => messages[i].id # messages[j].id

\* an assistant_start has arrived with the id a confirmed user message
\* already has, next to other messages
C19_Witness ==
    /\ lastOp.op = "assistant_start"
    /\ lastOp.res = "existing"
    /\ Len(messages) >= 2
    /\ \E i \in 1..Len(messages) :
          messages[i].id = lastOp.id /\ messages[i].role = "user"

\* C14: once a [DONE] line has been decoded on a stream, no event of a later
\* line, of the same read or of a later one, is delivered to the stream-event
\* callback.
C14_DoneEndsStream ==
    doneAt.seen => delivered = doneAt.delivered

\* the lines of one read that stand before its first [DONE] line
BeforeDone(lines) ==
    LET dones == { i \in 1..Len(lines) : lines[i] = <<DoneLine>> }
    IN  IF dones = {}
        THEN lines
        ELSE SubSeq(lines, 1, (CHOOSE i \in dones : \A j \in dones : i <= j) - 1)

\* the lines the reads have handed to the decoder, in stream order
RECURSIVE Decoded(_)
Decoded(reads) ==
    IF reads = <<>> THEN <<>>
    ELSE BeforeDone(Head(reads)) \o Decoded(Tail(reads))

WellFormed(line) == Len(line) = 1 /\ line[1] \in EventLines
Malformed(line) == line # <<>> /\ ~WellFormed(line) /\ line # <<DoneLine>>

\* C15: a data line that is not valid JSON costs one report on the error
\* callback, yields no stream event and does not end the stream: the events
\* delivered are those of the well-formed lines decoded, all of them and in
\* order, wherever malformed lines stand among them, and the error reports
\* are one per malformed line (and one for a failed read).
C15_MalformedLineSkipped ==
    LET lines == Decoded(linesRead)
        good == SelectSeq(lines, WellFormed)
    IN  /\ delivered = [ i \in 1..Len(good) |-> good[i][1] ]
        /\ errorReports = Len(SelectSeq(lines, Malformed))
                          + (IF readerState = "failed" THEN 1 ELSE 0)

\* one read has produced a malformed line followed by a well-formed one: the
\* first was reported, the second delivered
C15_Witness ==
    /\ readerState = "reading"
    /\ Len(linesRead) = 2
    /\ linesRead[2] = << <<"data: {bad">>, <<"data: e1">> >>
    /\ delivered = <<"data: e1">>
    /\ errorReports = 1

\* C20: init() and destroy() set the status to loading when they start; when
\* either has finished the status is ready or error; a failed init ends
\* with status error and a message and does not reject; a failed destroy
\* rejects.
C20_SessionStatus ==
    /\ sessionOp.phase = "start" => snapshot.status = "loading"
    /\ sessionOp.phase = "end" => snapshot.status \in {"ready", "error"}
    /\ (sessionOp.phase = "end" /\ sessionOp.kind = "init" /\ sessionOp.failed)
          => /\ snapshot.status = "error"
             /\ snapshot.error # Undefined
             /\ sessionOp.promise = "resolved"
    /\ (sessionOp.phase = "end" /\ sessionOp.kind = "destroy" /\ sessionOp.failed)
          => sessionOp.promise = "rejected"

\* C21: regenerate(messageId) leaves the transcript ending with the message
\* messageId followed by one loading placeholder before the transport is
\* called; when the transport call has failed, the placeholder is removed and
\* the failure has been rethrown to the caller of regenerate.
C21_RegenerateFailureRethrown ==
    /\ (lastOp.op = "regenerate" /\ HasId(messages, lastOp.id))
       => /\ Len(messages) >= 2
          /\ messages[Len(messages) - 1].id = lastOp.id
          /\ messages[Len(messages)].isLoading
          /\ messages[Len(messages)].id = lastOp.arg
    /\ ( /\ lastOp.op = "settled"
         /\ lastOp.arg = "regenerate"
         /\ lastOp.res \in {"network", "http", "rejected"} )
       => /\ \A i \in 1..Len(messages) : ~messages[i].isLoading
          /\ lastOp.res = "rejected"

\* C22: after a tool_start event for tool call t and tool name n, the
\* transcript holds a tool message with toolCallId t that is streaming and
\* carries the instanceNumber assigned to n by that event, both when the
\* event creates the message and when the message exists from an
\* approval_request (and so has no instanceNumber yet).
C22_ToolStartStreamingWithInstance ==
    [][ ( /\ lastOp'.op = "tool_start"
          /\ \A i \in 1..Len(messages) :
                messages[i].id = lastOp'.id
                => /\ messages[i].role = "tool"
                   /\ messages[i].toolCallId = lastOp'.id
                   /\ messages[i].instanceNumber = 0 )
        => \E i \in 1..Len(messages') :
              /\ messages'[i].role = "tool"
              /\ messages'[i].toolCallId = lastOp'.id
              /\ messages'[i].isStreaming
              /\ messages'[i].instanceNumber = toolInstanceCounts'[lastOp'.arg]
      ]_vars

\* C23: after a tool_complete event for an existing tool message t, the
\* message is not streaming and its toolOutput and status are the event's,
\* whatever its state before (streaming, waiting for approval, denied,
\* cancelled); when the status is error and the event has an output, the
\* message carries the error string built from the output.
C23_ToolCompleteIsTerminal ==
    [][ (lastOp'.op = "tool_complete" /\ IndexOfToolCall(messages, lastOp'.id) # 0)
        => LET i == IndexOfToolCall(messages, lastOp'.id)
           IN  /\ Len(messages') = Len(messages)
               /\ messages'[i].toolCallId = lastOp'.id
               /\ ~messages'[i].isStreaming
               /\ messages'[i].toolOutput = lastOp'.res
               /\ messages'[i].status = lastOp'.arg
               /\ (lastOp'.arg = "error" /\ lastOp'.res # Undefined)
                  => messages'[i].error = "Tool execution failed"
      ]_vars

\* a tool message that stop() cancelled while it was streaming has received
\* a failing tool_complete with an output
C23_Witness ==
    /\ lastOp.op = "tool_complete"
    /\ lastOp.arg = "error"
    /\ lastOp.res = "out"
    /\ \E i \in 1..Len(messages) :
          /\ messages[i].toolCallId = lastOp.id
          /\ messages[i].cancelled
          /\ ~messages[i].isStreaming
          /\ messages[i].toolOutput = "out"
          /\ messages[i].error = "Tool execution failed"

\* a tool message that was streaming has received a successful
\* tool_complete
C23_WitnessStreaming ==
    /\ lastOp.op = "tool_complete"
    /\ lastOp.arg = "success"
    /\ \E i \in 1..Len(messages) :
          /\ messages[i].toolCallId = lastOp.id
          /\ messages[i].instanceNumber = 1
          /\ ~messages[i].cancelled
          /\ messages[i].approvalStatus = Undefined
          /\ ~messages[i].isStreaming
          /\ messages[i].status = "success"

\* a denied tool message has received a tool_complete
C23_WitnessDenied ==
    /\ lastOp.op = "tool_complete"
    /\ \E i \in 1..Len(messages) :
          /\ messages[i].toolCallId = lastOp.id
          /\ messages[i].approvalStatus = "denied"
          /\ messages[i].toolOutput = lastOp.res
          /\ lastOp.res # "Tool execution was denied by user"

\* C24: an error event is routed by its messageId.  When it names an existing
\* message that is not a tool message, only the error field of that message
\* changes; when it names a tool message, the transcript does not change at
\* all; when it has no messageId, exactly one new message of role error is
\* appended and no existing message changes.
C24_ErrorEventRouting ==
    [][ lastOp'.op = "error" =>
          IF lastOp'.id # Undefined
          THEN LET i == IndexOfId(messages, lastOp'.id)
               IN  /\ Len(messages') = Len(messages)
                   /\ \A j \in 1..Len(messages) :
                         j # i => messages'[j] = messages[j]
                   /\ (i # 0 /\ messages[i].role # "tool")
                      => messages'[i] =
                            [messages[i] EXCEPT !.error = "stream error"]
                   /\ (i # 0 /\ messages[i].role = "tool")
                      => messages' = messages
          ELSE /\ Len(messages') = Len(messages) + 1
               /\ SubSeq(messages', 1, Len(messages)) = messages
               /\ messages'[Len(messages')].role = "error"
               /\ messages'[Len(messages')].id = lastOp'.res
               /\ messages'[Len(messages')].error = "stream error"
      ]_vars

\* an error event for the tool message t1 has left it without an error,
\* after an error event for the assistant message m1 had set its error
C24_Witness ==
    /\ lastOp.op = "error"
    /\ lastOp.id = "t1"
    /\ \E i \in 1..Len(messages) :
          /\ messages[i].id = "t1"
          /\ messages[i].role = "tool"
          /\ messages[i].error = Undefined
    /\ \E i \in 1..Len(messages) :
          /\ messages[i].id = "m1"
          /\ messages[i].role = "assistant"
          /\ messages[i].error = "stream error"

\* an error event for the assistant message m1 has set its error
C24_WitnessAssistant ==
    /\ lastOp.op = "error"
    /\ lastOp.id = "m1"
    /\ \E i \in 1..Len(messages) :
          /\ messages[i].id = "m1"
          /\ messages[i].isStreaming
          /\ messages[i].error = "stream error"

\* an error event without messageId has appended an error message to a
\* transcript that was not empty
C24_WitnessStandalone ==
    /\ lastOp.op = "error"
    /\ lastOp.id = Undefined
    /\ Len(messages) >= 2
    /\ messages[Len(messages)].role = "error"

\* C25: denyToolCall(t) marks the tool message t denied and not waiting for
\* approval before the network call; when the call has finished, with or
\* without a failure, the message is still denied and not waiting, the
\* promise of denyToolCall has not rejected, and a failure has changed
\* nothing of the message but its error field, which then holds an error
\* note.
C25_DenyKeptWithErrorNote ==
    [][ /\ lastOp'.op = "denyToolCall"
           => \A i \in 1..Len(messages') :
                 (messages'[i].role = "tool" /\ messages'[i].toolCallId = lastOp'.id)
                 => /\ messages'[i].approvalStatus = "denied"
                    /\ ~messages'[i].waitingForApproval
        /\ (lastOp'.op = "settled" /\ lastOp'.arg = "deny")
           => /\ ~ControllerRejects("deny", lastOp'.res)
              /\ \A i \in 1..Len(messages) :
                    ( /\ messages[i].role = "tool"
                      /\ messages[i].toolCallId = lastOp'.id
                      /\ messages[i].approvalStatus = "denied"
                      /\ ~messages[i].waitingForApproval )
                    => /\ i <= Len(messages')
                       /\ messages'[i] =
                             IF lastOp'.res \in {"network", "http", "rejected"}
                             THEN [messages[i] EXCEPT
                                      !.error = "Failed to send denial"]
                             ELSE messages[i]
      ]_vars

\* all complete lines the reads have produced, in stream order
RECURSIVE AllLines(_)
AllLines(reads) ==
    IF reads = <<>> THEN <<>> ELSE Head(reads) \o AllLines(Tail(reads))

\* what the decoder hands to the callbacks when the same lines arrive cut
\* into one chunk per line
RECURSIVE LineByLine(_, _, _)
LineByLine(lines, events, errors) ==
    IF lines = <<>>
    THEN [ delivered |-> events, errors |-> errors ]
    ELSE LET result == ProcessLines(<<Head(lines)>>, events, errors)
         IN  LineByLine(Tail(lines), result.delivered, result.errors)

\* C26: what the stream decoder hands to the stream-event callback and to the
\* error callback does not depend on how the bytes are cut into chunks: for
\* the lines received so far it is what the decoder hands over when each line
\* arrives as a chunk of its own.
C26_ChunkingIrrelevant ==
    LET whole == LineByLine(AllLines(linesRead), <<>>, 0)
    IN  /\ delivered = whole.delivered
        /\ errorReports = whole.errors
                          + (IF readerState = "failed" THEN 1 ELSE 0)

\* C27: a tool message that tool_complete has made terminal (it has the
\* status and the output of the event and is not streaming) does not become
\* streaming again; in particular a duplicate or late tool_start for an
\* approved tool does not set isStreaming back to true.
C27_CompletedToolStaysTerminal ==
    [][ \A i \in 1..Len(messages) :
          ( /\ messages[i].role = "tool"
            /\ messages[i].status # Undefined
            /\ messages[i].toolOutput # "Tool execution was denied by user"
            /\ ~messages[i].isStreaming
            /\ i <= Len(messages')
            /\ messages'[i].id = messages[i].id )
          => ~messages'[i].isStreaming
      ]_vars

\* C28: when the response stream of a send, regenerate or approval has come
\* to its end and no other request is in flight, the transcript holds no
\* loading placeholder and no streaming message, also when the stream ended
\* without assistant_start, assistant_complete or tool_complete.
C28_ExchangeEndsTerminal ==
    (lastOp.op = "settled" /\ calls = {})
    => \A i \in 1..Len(messages) :
          ~messages[i].isLoading /\ ~messages[i].isStreaming

\* the stream events the controller reduces into the transcript
StreamEventOps ==
    {"user_message_confirmed", "assistant_start", "assistant_token",
     "assistant_complete", "tool_start", "tool_complete", "error",
     "approval_request", "batch_approval_request"}

\* C29: after setThreadId or clear, an event that arrives from a request
\* started in the previous thread neither adds a message to the new
\* transcript nor changes one.  Stated for the event that follows the reset
\* directly: no request has been started since, so the stream that delivers
\* it was opened in the previous thread.
C29_StaleEventsIgnored ==
    [][ (lastOp.op \in {"setThreadId", "clear"} /\ lastOp'.op \in StreamEventOps)
        => messages' = messages
      ]_vars

\* C30: after stop(), no stream feeds the transcript until the user starts a
\* new send, regenerate or approval, also when the active stream was opened
\* by sendApproval or sendBatchApproval or by a send that a later one
\* superseded.  Stated for the step that follows stop: it is not the
\* reduction of a stream event.
C30_StopSilencesAllStreams ==
    [][ lastOp.op = "stop" => lastOp'.op \notin StreamEventOps ]_vars

====
